---- MODULE Spec2Model ----
(***************************************************************************)
(* Model of itk::SCIFIOImageIO (src/src/itkSCIFIOImageIO.cxx): the bridge  *)
(* that supervises one external worker process and talks to it over a     *)
(* pipe with a line-oriented / binary-framed protocol.                    *)
(*                                                                         *)
(* Text is modelled as a sequence of symbols.  A symbol is one byte (the   *)
(* linefeed LF, the backslash BS, a digit, the letter "n", ...) or a run   *)
(* of ordinary bytes that holds no linefeed, backslash or digit (a key     *)
(* name such as "PixelType", a diagnostic text "E").  The non-WIN32 build  *)
(* is modelled: the line terminator is one linefeed.                       *)
(***************************************************************************)
EXTENDS Integers, Sequences, FiniteSets, TLC

(***************************************************************************)
(* Bounds of the model.                                                    *)
(***************************************************************************)
\* number of worker processes one instance may spawn in a run
MaxSpawn == 2
\* number of diagnostic-channel chunks delivered during one operation
MaxErr == 1
\* largest byte count (pixel size times pixel count) of a Read region
MaxBytes == 2

(***************************************************************************)
(* Program constants.                                                      *)
(***************************************************************************)
\* m_Process = NULL: the instance holds no process handle
NULL == 0
\* std::string::npos; npos + 1 wraps to 0 in size_t arithmetic
NPOS == -1
\* int pipelength = 10000: the chunk limit of Write
pipelength == 10000
\* largest value of int: a larger number fails istringstream >> int
INT_MAX == 2147483647
\* ImageIOBase::UNKNOWNCOMPONENTTYPE
UNKNOWNCOMPONENTTYPE == 0

LF == "\n"
BS == "\\"

\* the states itksysProcess_GetState can report after itksysProcess_Execute;
\* "Unknown" stands for every state the switch sends to its default branch
ProcessStates ==
  {"Executing", "Exited", "Error", "Exception", "Expired", "Killed",
   "Disowned", "Unknown"}

(***************************************************************************)
(* std::string helpers, positions 0-based as in the source.                *)
(***************************************************************************)
\* s[i]
At(s, i) == s[i + 1]

\* s.find(c, from): the first position >= from holding c, else npos
RECURSIVE Find(_, _, _)
Find(s, c, from) ==
  IF from >= Len(s) THEN NPOS
  ELSE IF At(s, from) = c THEN from
  ELSE Find(s, c, from + 1)

\* s.substr(pos, n): at most n symbols from pos; a count that came from
\* npos (negative here, huge in size_t) takes the rest of the string
SubStr(s, pos, n) ==
  LET last == IF n < 0 \/ pos + n > Len(s) THEN Len(s) ELSE pos + n
  IN  SubSeq(s, pos + 1, last)

\* the test for one "\n" at the end
EndsWithSentinel_OneTerminator(s) ==
  Len(s) >= 1 /\ SubStr(s, Len(s) - 1, 1) = <<LF>>

\* imgInfo.size() >= 2 && imgInfo.substr( imgInfo.size()-2, 2 ) == "\n\n"
EndsWithSentinel(s) ==
  Len(s) >= 2 /\ SubStr(s, Len(s) - 2, 2) = <<LF, LF>>

(***************************************************************************)
(* Typed extraction.                                                       *)
(***************************************************************************)
Digits == {"0", "1", "2", "3", "4", "5", "6", "7", "8", "9"}

DigitVal(d) ==
  CASE d = "0" -> 0 [] d = "1" -> 1 [] d = "2" -> 2 [] d = "3" -> 3
    [] d = "4" -> 4 [] d = "5" -> 5 [] d = "6" -> 6 [] d = "7" -> 7
    [] d = "8" -> 8 [] d = "9" -> 9

\* the digits read by istringstream >> number, from position i on, folded
\* into acc; -1 reports an overflow of int
RECURSIVE ReadDigits(_, _, _)
ReadDigits(s, i, acc) ==
  IF i >= Len(s) \/ At(s, i) \notin Digits THEN acc
  ELSE LET d == DigitVal(At(s, i)) IN
       IF acc > (INT_MAX - d) \div 10 THEN -1
       ELSE ReadDigits(s, i + 1, acc * 10 + d)

\* valueOfString<long/int/short/double>: the stream extraction fails (and the
\* generic template throws) when the string does not start with a number,
\* or the number does not fit
valueOfString(s) ==
  IF s = <<>> \/ s[1] \notin Digits THEN [ok |-> FALSE, val |-> 0]
  ELSE LET v == ReadDigits(s, 0, 0) IN
       IF v < 0 THEN [ok |-> FALSE, val |-> 0] ELSE [ok |-> TRUE, val |-> v]

\* valueOfString<bool> without the std::boolalpha attempt
valueOfStringBool_NumericOnly(s) ==
  s # <<>> /\ s[1] \in Digits /\ ReadDigits(s, 0, 0) # 0

\* valueOfString<bool>: numeric extraction first, std::boolalpha second;
\* never throws
valueOfStringBool(s) ==
  IF s # <<>> /\ s[1] \in Digits
    THEN ReadDigits(s, 0, 0) # 0
    ELSE s # <<>> /\ s[1] = "true"

\* ExposeMetaData<std::string>(dict, key, tmp): tmp stays empty when the
\* key is absent
ExposeMetaData(dict, key) ==
  IF key \in DOMAIN dict THEN dict[key] ELSE <<>>

\* GetTypedMetaData<T>(dict, key)
GetTypedMetaData(dict, key) == valueOfString(ExposeMetaData(dict, key))

GetTypedMetaDataBool(dict, key) == valueOfStringBool(ExposeMetaData(dict, key))

(***************************************************************************)
(* The metadata codec of ReadImageInformation.                             *)
(***************************************************************************)
\* the unescape loop that keeps the character after an unknown escape
RECURSIVE UnescapeFrom_KeepUnknown(_, _, _)
UnescapeFrom_KeepUnknown(value, lp0, tmp) ==
  IF ~(lp0 < Len(value)) THEN tmp
  ELSE LET lp1 == Find(value, BS, lp0) IN
       IF lp1 = NPOS
         THEN UnescapeFrom_KeepUnknown(value, Len(value),
                           tmp \o SubStr(value, lp0, Len(value) - lp0))
         ELSE LET t1 == tmp \o SubStr(value, lp0, lp1 - lp0)
                  t2 == IF lp1 < Len(value) - 1
                          THEN IF At(value, lp1 + 1) = BS THEN t1 \o <<BS>>
                               ELSE IF At(value, lp1 + 1) = "n" THEN t1 \o <<LF>>
                               ELSE t1 \o <<At(value, lp1 + 1)>>
                          ELSE t1
              IN  UnescapeFrom_KeepUnknown(value, lp1 + 2, t2)

\* the unescape loop over one value line
RECURSIVE UnescapeFrom(_, _, _)
UnescapeFrom(value, lp0, tmp) ==
  IF ~(lp0 < Len(value)) THEN tmp
  ELSE LET lp1 == Find(value, BS, lp0) IN
       IF lp1 = NPOS
         THEN UnescapeFrom(value, Len(value),
                           tmp \o SubStr(value, lp0, Len(value) - lp0))
         ELSE LET t1 == tmp \o SubStr(value, lp0, lp1 - lp0)
                  t2 == IF lp1 < Len(value) - 1
                          THEN IF At(value, lp1 + 1) = BS THEN t1 \o <<BS>>
                               ELSE IF At(value, lp1 + 1) = "n" THEN t1 \o <<LF>>
                               ELSE t1
                          ELSE t1
              IN  UnescapeFrom(value, lp1 + 2, t2)

\* the value stored as it came
Unescape_Verbatim(value) == value

Unescape(value) == UnescapeFrom(value, 0, <<>>)

\* EncapsulateMetaData<std::string>(dict, key, tmp)
EncapsulateMetaData(dict, key, tmp) ==
  [k \in DOMAIN dict \cup {key} |-> IF k = key THEN tmp ELSE dict[k]]

\* the line-splitting loop: key line, value line, first occurrence of a key wins
RECURSIVE ParseFrom(_, _, _)
ParseFrom(imgInfo, p0, dict) ==
  IF ~(p0 < Len(imgInfo)) THEN dict
  ELSE LET p1   == Find(imgInfo, LF, p0)
           line == SubStr(imgInfo, p0, p1 - p0)
       IN
       IF line = <<>> THEN ParseFrom(imgInfo, p1 + 1, dict)
       ELSE LET key   == line
                q0    == p1 + 1
                q1    == Find(imgInfo, LF, q0)
                value == SubStr(imgInfo, q0, q1 - q0)
            IN
            IF value = <<>> THEN ParseFrom(imgInfo, q1 + 1, dict)
            ELSE ParseFrom(imgInfo, q1 + 1,
                           IF key \in DOMAIN dict THEN dict
                           ELSE EncapsulateMetaData(dict, key, Unescape(value)))

ParseFrame(imgInfo, dict) == ParseFrom(imgInfo, 0, dict)


(***************************************************************************)
(* Descriptor population of ReadImageInformation (fixed order; the first   *)
(* failing extraction throws and leaves the later fields untouched).       *)
(***************************************************************************)
K(name) == <<name>>

SizeKeys == <<"SizeX", "SizeY", "SizeZ", "SizeT", "SizeC">>

SpacingKeys ==
  <<"PixelsPhysicalSizeX", "PixelsPhysicalSizeY", "PixelsPhysicalSizeZ",
    "PixelsPhysicalSizeT", "PixelsPhysicalSizeC">>

\* the five SetSpacing( d, GetTypedMetaData<double>(...) ) calls
RECURSIVE SetSpacings(_, _, _)
SetSpacings(dict, d, k) ==
  IF k > 5 THEN [desc |-> d, err |-> "none"]
  ELSE LET r == GetTypedMetaData(dict, K(SpacingKeys[k])) IN
       IF ~r.ok THEN [desc |-> d, err |-> "conversion"]
       ELSE SetSpacings(dict, [d EXCEPT !.m_Spacing[k] = r.val], k + 1)

\* RGBChannelCount: 1 -> SCALAR, 3 -> RGB, otherwise VECTOR
SetComponents(dict, d) ==
  LET i == GetTypedMetaData(dict, K("RGBChannelCount")) IN
  IF ~i.ok THEN [desc |-> d, err |-> "conversion"]
  ELSE SetSpacings(dict,
         [d EXCEPT !.m_PixelType = IF i.val = 1 THEN "SCALAR"
                                   ELSE IF i.val = 3 THEN "RGB" ELSE "VECTOR",
                   !.m_NumberOfComponents = i.val], 1)

\* the five SetDimensions( d, GetTypedMetaData<long>(...) ) calls
RECURSIVE SetSizes(_, _, _)
SetSizes(dict, d, k) ==
  IF k > 5 THEN SetComponents(dict, d)
  ELSE LET i == GetTypedMetaData(dict, K(SizeKeys[k])) IN
       IF ~i.ok THEN [desc |-> d, err |-> "conversion"]
       ELSE SetSizes(dict, [d EXCEPT !.m_Dimensions[k] = i.val], k + 1)

\* lines 552-634: Interleaved (logged only), LittleEndian, PixelType, sizes,
\* channel count, spacings
PopulateDescriptor(dict, d0) ==
  LET d1 == [d0 EXCEPT !.m_ByteOrder =
                IF GetTypedMetaDataBool(dict, K("LittleEndian"))
                  THEN "LittleEndian" ELSE "BigEndian"]
  IN
  IF K("PixelType") \notin DOMAIN dict THEN [desc |-> d1, err |-> "missingkey"]
  ELSE LET i == GetTypedMetaData(dict, K("PixelType")) IN
       IF ~i.ok THEN [desc |-> d1, err |-> "conversion"]
       ELSE IF i.val = UNKNOWNCOMPONENTTYPE
         THEN [desc |-> d1, err |-> "unknownpixel"]
       ELSE SetSizes(dict,
              [d1 EXCEPT !.m_ComponentType = <<"scifioToTIKComponentType", i.val>>],
              1)

(***************************************************************************)
(* State.                                                                  *)
(***************************************************************************)
VARIABLES
  \* the process supervisor
  m_Process,     \* NULL or the handle made by itksysProcess_New
  handles,       \* the kwsys handles not yet deleted: handle -> its state
  alive,         \* the worker processes of this instance that are running
  m_Pipe,        \* the pipe pair made by the last pipe( m_Pipe ), 0 before
  openEnds,      \* the pipe ends open in the bridge: <<pipe, 0 or 1>>
  nSpawn,        \* number of itksysProcess_Execute calls so far
  \* the worker at the other side of the current pipe
  wmode,         \* how it reads its input: "none", "command", "pixels"
  wout,          \* what it has put on its output channel and is not yet read
  winterp,       \* how it took the last command line written to it
  wbpp,          \* the per-plane byte count it announced (digits)
  wgot,          \* pixel bytes of the current plane it has received
  wplanes,       \* planes it still expects
  \* the bridge
  pc,            \* where the caller is: "idle", a wait loop, "destructed"
  dict,          \* the instance's MetaDataDictionary
  itkMeta,       \* the copy saved by ReadImageInformation
  desc,          \* the image descriptor fields of ImageIOBase
  imgInfo,       \* the text accumulated from the output channel
  bytesDone,     \* the chunk acknowledgement accumulated by Write
  planeDone,     \* the plane acknowledgement accumulated by Write
  errorMessage,  \* the text accumulated from the diagnostic channel
  data,          \* Read: the destination buffer
  pos,           \* Read: the write offset
  byteCount,     \* Read: the target byte count
  rdBytes,       \* Read: the bytes the worker delivers for the region
  numPlanes,     \* Write
  bytesPerPlane, \* Write
  plane,         \* Write: the plane index i
  bytesRead,     \* Write
  dataOff,       \* Write: offset of the data pointer in the source buffer
  \* what the last step did
  ev,            \* the operation or the WaitForData return of the last step
  command,       \* the command line the last step wrote, <<>> if none
  chunkOut,      \* the pixel bytes the last step wrote to the pipe
  killSent,      \* the process the last step killed and waited for, or NULL
  \* how the last operation ended
  result,        \* "none" while running, "ok", "error"
  errKind,       \* "none", "launch", "abnormal", "missingkey", "conversion",
                 \* "unknownpixel"
  errText,       \* the diagnostic text carried by the exception
  ret            \* the returned boolean of canRead / canWrite, else "void"

supVars == <<m_Process, handles, alive, m_Pipe, openEnds, nSpawn>>
workerVars == <<wmode, wout, winterp, wbpp, wgot, wplanes>>
metaVars == <<dict, itkMeta, desc>>
textVars == <<imgInfo, bytesDone, planeDone, errorMessage>>
readVars == <<data, pos, byteCount, rdBytes>>
writeVars == <<numPlanes, bytesPerPlane, plane, bytesRead, dataOff>>
stepVars == <<ev, command, chunkOut, killSent>>
endVars == <<result, errKind, errText, ret>>

vars ==
  <<supVars, workerVars, metaVars, textVars, readVars, writeVars, stepVars,
    endVars, pc>>

(***************************************************************************)
(* The process supervisor, as functions of the supervisor's state.         *)
(***************************************************************************)
Sup ==
  [m_Process |-> m_Process, handles |-> handles, alive |-> alive,
   m_Pipe |-> m_Pipe, openEnds |-> openEnds, nSpawn |-> nSpawn]

\* itksysProcess_GetState( m_Process ) == itksysProcess_State_Executing
Executing(s) == s.m_Process # NULL /\ s.handles[s.m_Process] = "Executing"

\* DestroyJavaProcess that returns at once
DestroyJavaProcess_Nothing(s) == s

\* DestroyJavaProcess without close( m_Pipe[1] )
DestroyJavaProcess_NoClose(s) ==
  IF s.m_Process = NULL THEN s
  ELSE [s EXCEPT
          !.alive = IF Executing(s) THEN @ \ {s.m_Process} ELSE @,
          !.handles = [h \in DOMAIN s.handles \ {s.m_Process} |-> s.handles[h]],
          !.m_Process = NULL]

\* DestroyJavaProcess without itksysProcess_Kill / WaitForExit
DestroyJavaProcess_NoKill(s) ==
  IF s.m_Process = NULL THEN s
  ELSE [s EXCEPT
          !.handles = [h \in DOMAIN s.handles \ {s.m_Process} |-> s.handles[h]],
          !.m_Process = NULL,
          !.openEnds = @ \ {<<s.m_Pipe, 1>>}]

\* DestroyJavaProcess: kill and wait if executing, delete the handle, close
\* the retained write end
DestroyJavaProcess(s) ==
  IF s.m_Process = NULL THEN s
  ELSE [s EXCEPT
          !.alive = IF Executing(s) THEN @ \ {s.m_Process} ELSE @,
          !.handles = [h \in DOMAIN s.handles \ {s.m_Process} |-> s.handles[h]],
          !.m_Process = NULL,
          !.openEnds = @ \ {<<s.m_Pipe, 1>>}]

\* the process DestroyJavaProcess kills and waits for
KilledBy(s) == IF Executing(s) THEN s.m_Process ELSE NULL

\* pipe( m_Pipe ), itksysProcess_New, SetPipeNative, Execute: kwsys closes the
\* read end in the parent once the child has it; st is the state reported
\* by itksysProcess_GetState after Execute
SpawnJavaProcess(s, st) ==
  LET id == s.nSpawn + 1 IN
  [s EXCEPT
     !.nSpawn = id,
     !.m_Pipe = id,
     !.openEnds = (@ \cup {<<id, 0>>, <<id, 1>>}) \ {<<id, 0>>},
     !.m_Process = id,
     !.handles = [h \in DOMAIN s.handles \cup {id} |->
                    IF h = id THEN st ELSE s.handles[h]],
     !.alive = IF st = "Executing" THEN @ \cup {id} ELSE @]

\* CreateJavaProcess that spawns without looking at m_Process
CreateJavaProcess_Always(s, st) ==
  [sup |-> SpawnJavaProcess(s, st), thrown |-> st # "Executing"]

\* CreateJavaProcess that destroys and respawns a worker that is executing
CreateJavaProcess_NoReuse(s, st) ==
  [sup |-> SpawnJavaProcess(DestroyJavaProcess(s), st),
   thrown |-> st # "Executing"]

\* CreateJavaProcess: reuse an executing worker, else destroy the stale
\* handle and spawn; any state but Executing throws
CreateJavaProcess(s, st) ==
  IF Executing(s) THEN [sup |-> s, thrown |-> FALSE]
  ELSE [sup |-> SpawnJavaProcess(DestroyJavaProcess(s), st),
        thrown |-> st # "Executing"]

(***************************************************************************)
(* The worker process at the other side of the pipe (the environment).     *)
(* It answers one command line at a time; after a write command it reads   *)
(* pixel bytes, and acknowledges every chunk and every completed plane.    *)
(***************************************************************************)
TAB == "\t"

Wk ==
  [wmode |-> wmode, wout |-> wout, winterp |-> winterp, wbpp |-> wbpp,
   wgot |-> wgot, wplanes |-> wplanes]

NoWorker ==
  [wmode |-> "none", wout |-> <<>>, winterp |-> "none", wbpp |-> <<>>,
   wgot |-> 0, wplanes |-> 0]

FreshWorker == [NoWorker EXCEPT !.wmode = "command"]

\* replies to canRead / canWrite
BoolFrames == {<<"1", LF, LF>>, <<"0", LF, LF>>}

Pair(k, v) == <<k, LF>> \o v \o <<LF>>

\* a complete metadata dump
FullInfoFrame ==
  Pair("LittleEndian", <<"1">>) \o Pair("PixelType", <<"1">>)
    \o Pair("SizeX", <<"2">>) \o Pair("SizeY", <<"1">>) \o Pair("SizeZ", <<"1">>)
    \o Pair("SizeT", <<"1">>) \o Pair("SizeC", <<"1">>)
    \o Pair("RGBChannelCount", <<"3">>)
    \o Pair("PixelsPhysicalSizeX", <<"1">>) \o Pair("PixelsPhysicalSizeY", <<"1">>)
    \o Pair("PixelsPhysicalSizeZ", <<"1">>) \o Pair("PixelsPhysicalSizeT", <<"1">>)
    \o Pair("PixelsPhysicalSizeC", <<"1">>) \o <<LF>>

\* replies to info: complete, without PixelType, with the unknown pixel
\* type, with a size that is no number
InfoFrames ==
  { FullInfoFrame,
    Pair("LittleEndian", <<"1">>) \o <<LF>>,
    Pair("PixelType", <<"0">>) \o <<LF>>,
    Pair("PixelType", <<"1">>) \o Pair("SizeX", <<"x">>) \o <<LF>> }

\* per-plane byte counts a worker announces after a write command: 1,
\* 10001 (more than one chunk), 3000000000 (does not fit an int)
CountTexts ==
  { <<"1">>, <<"1", "0", "0", "0", "1">>,
    <<"3", "0", "0", "0", "0", "0", "0", "0", "0", "0">> }

\* bytes of pixel data
Bytes == {"a", "b"}

ChunkAck == <<"ack", LF, LF>>
PlaneAck == <<"done", LF, LF>>

\* the bytes per plane the worker waits for, capped at INT_MAX
WorkerPlaneBytes(cnt) ==
  LET v == ReadDigits(cnt, 0, 0) IN IF v < 0 THEN INT_MAX ELSE v

\* a command line arrives: a worker waiting for a command answers it with
\* resp; a worker waiting for pixel bytes swallows it as pixel data
WorkerReceive(w, verb, resp, cnt, planes) ==
  IF w.wmode = "command"
    THEN [w EXCEPT !.winterp = "command",
                   !.wout = @ \o resp,
                   !.wmode = IF verb = "write" THEN "pixels" ELSE "command",
                   !.wbpp = IF verb = "write" THEN cnt ELSE <<>>,
                   !.wgot = 0,
                   !.wplanes = IF verb = "write" THEN planes ELSE 0]
  ELSE IF w.wmode = "pixels" THEN [w EXCEPT !.winterp = "pixels"]
  ELSE w

\* n pixel bytes arrive: the worker acknowledges the chunk and, when the
\* plane is complete, the plane; after the last plane it waits for commands
WorkerTakePixels(w, n) ==
  IF w.wmode # "pixels" THEN w
  ELSE LET got  == w.wgot + n
           full == got >= WorkerPlaneBytes(w.wbpp)
           left == IF full THEN w.wplanes - 1 ELSE w.wplanes
       IN [w EXCEPT !.wgot = IF full THEN 0 ELSE got,
                    !.wplanes = left,
                    !.wout = @ \o ChunkAck \o (IF full THEN PlaneAck ELSE <<>>),
                    !.wmode = IF left <= 0 THEN "command" ELSE "pixels"]

\* the worker behind the pipe after CreateJavaProcess
WorkerAfterCreate(c) ==
  IF c.sup.nSpawn = nSpawn THEN Wk
  ELSE IF c.thrown THEN NoWorker ELSE FreshWorker

(***************************************************************************)
(* Inputs of the operations.                                               *)
(***************************************************************************)
\* ImageIORegion of Read: two, three and six axes (the dimension of the
\* region is the caller's image dimension)
ReadRegions ==
  { [dim |-> 2, index |-> <<0, 0>>, size |-> <<x, 1>>] : x \in 0..MaxBytes }
    \cup { [dim |-> 3, index |-> <<0, 0, 1>>, size |-> <<1, 1, 1>>],
            [dim |-> 6, index |-> <<0, 0, 0, 0, 0, 0>>,
             size |-> <<1, 1, 1, 1, 1, 1>>] }

\* ImageIORegion of Write
WriteRegions ==
  { [dim |-> 2, index |-> <<0, 0>>, size |-> <<1, 1>>] }
    \cup { [dim |-> 3, index |-> <<0, 0, iz>>, size |-> <<1, 1, 2>>] :
             iz \in {0, 1} }

\* region.GetNumberOfPixels()
RECURSIVE ProductFrom(_, _)
ProductFrom(sz, k) == IF k > Len(sz) THEN 1 ELSE sz[k] * ProductFrom(sz, k + 1)

GetNumberOfPixels(region) == ProductFrom(region.size, 1)

\* this->GetPixelSize(): bytes per pixel
GetPixelSize == 1

\* toString of a non-negative integer
RECURSIVE toString(_)
toString(n) ==
  LET d == CHOOSE c \in Digits : DigitVal(c) = n % 10 IN
  IF n < 10 THEN <<d>> ELSE toString(n \div 10) \o <<d>>

(***************************************************************************)
(* Command encoding.                                                       *)
(***************************************************************************)
FileName == "f"

\* "\t" index "\t" size for the region's own axes d .. dim-1
RECURSIVE RegionPairs(_, _)
RegionPairs(region, d) ==
  IF d >= region.dim THEN <<>>
  ELSE <<TAB>> \o toString(region.index[d + 1]) \o <<TAB>>
         \o toString(region.size[d + 1]) \o RegionPairs(region, d + 1)

\* "\t0\t1" for d .. 4
RECURSIVE ReadPadding(_)
ReadPadding(d) == IF d >= 5 THEN <<>> ELSE <<TAB, "0", TAB, "1">> \o ReadPadding(d + 1)

ReadCommand(region) ==
  <<"read", TAB, FileName>> \o RegionPairs(region, 0) \o ReadPadding(region.dim)
    \o <<LF>>

\* numPlanes *= size - index on the Z, C, T axes of the region
RECURSIVE NumPlanesFrom(_, _)
NumPlanesFrom(region, dim) ==
  IF dim >= 5 THEN 1
  ELSE (IF dim < region.dim /\ dim \in {2, 3, 4}
          THEN region.size[dim + 1] - region.index[dim + 1] ELSE 1)
       * NumPlanesFrom(region, dim + 1)

NumPlanes(region) == NumPlanesFrom(region, 0)

\* the planes the worker expects: the product of the extents beyond Y
RECURSIVE WorkerPlanesFrom(_, _)
WorkerPlanesFrom(region, dim) ==
  IF dim >= 5 THEN 1
  ELSE (IF dim < region.dim /\ dim >= 2 THEN region.size[dim + 1] ELSE 1)
       * WorkerPlanesFrom(region, dim + 1)

WorkerPlanes(region) == WorkerPlanesFrom(region, 0)


\* valueOfString<short>
SHRT_MAX == 32767

valueOfStringShort(s) ==
  LET v == valueOfString(s) IN
  IF v.ok /\ v.val > SHRT_MAX THEN [ok |-> FALSE, val |-> 0] ELSE v

\* n times the text t
RECURSIVE Repeat(_, _)
Repeat(t, n) == IF n <= 0 THEN <<>> ELSE t \o Repeat(t, n - 1)

\* toString(x) "\t" for the first dim entries of xs, "1\t" up to five
RECURSIVE PaddedFields(_, _, _)
PaddedFields(xs, dim, i) ==
  IF i >= 5 /\ i >= dim THEN <<>>
  ELSE (IF i < dim THEN toString(xs[i + 1]) ELSE <<"1">>) \o <<TAB>>
         \o PaddedFields(xs, dim, i + 1)

\* index "\t" size "\t" per axis, "0\t1\t" for the axes beyond the region
RECURSIVE WritePairs(_, _)
WritePairs(region, dim) ==
  IF dim >= 5 THEN <<>>
  ELSE (IF dim < region.dim
          THEN toString(region.index[dim + 1]) \o <<TAB>>
                 \o toString(region.size[dim + 1]) \o <<TAB>>
          ELSE <<"0", TAB, "1", TAB>>)
       \o WritePairs(region, dim + 1)

\* the lookup-table entries i .. LUTLength-1: R, G, B of entry i, each
\* followed by a tab; a bit depth other than 8 reads shorts and adds one
\* more tab per entry
RECURSIVE LutEntries(_, _, _, _)
LutEntries(meta, bits, len, i) ==
  IF i >= len THEN [ok |-> TRUE, text |-> <<>>]
  ELSE LET conv(key) == IF bits = 8
                          THEN GetTypedMetaData(meta, <<key>> \o toString(i))
                          ELSE valueOfStringShort(
                                 ExposeMetaData(meta, <<key>> \o toString(i)))
           r == conv("LUTR")
           g == conv("LUTG")
           b == conv("LUTB")
           rest == LutEntries(meta, bits, len, i + 1)
       IN
       IF ~r.ok \/ ~g.ok \/ ~b.ok \/ ~rest.ok THEN [ok |-> FALSE, text |-> <<>>]
       ELSE [ok |-> TRUE,
             text |-> toString(r.val) \o <<TAB>> \o toString(g.val) \o <<TAB>>
                        \o toString(b.val) \o <<TAB>>
                        \o (IF bits = 8 THEN <<>> ELSE <<TAB>>) \o rest.text]

\* the lookup-table block of the write command
LutBlock(meta) ==
  IF GetTypedMetaDataBool(meta, K("UseLUT"))
    THEN LET bits == GetTypedMetaData(meta, K("LUTBits"))
             len  == GetTypedMetaData(meta, K("LUTLength"))
         IN
         IF ~bits.ok \/ ~len.ok THEN [ok |-> FALSE, text |-> <<>>]
         ELSE LET e == LutEntries(meta, bits.val, len.val, 0) IN
              IF ~e.ok THEN e
              ELSE [ok |-> TRUE,
                    text |-> <<"1", TAB>> \o toString(bits.val) \o <<TAB>>
                               \o toString(len.val) \o <<TAB>> \o e.text]
    ELSE [ok |-> TRUE, text |-> <<"0", TAB>>]

\* the write command up to the lookup-table block
WriteCommandHead(region, d) ==
  <<"write", TAB, FileName, TAB>>
    \o (IF d.m_ByteOrder = "BigEndian" THEN <<"1">> ELSE <<"0">>) \o <<TAB>>
    \o toString(region.dim) \o <<TAB>>
    \o PaddedFields(region.size, region.dim, 0)
    \o PaddedFields(d.m_Spacing, region.dim, 0)
    \o <<"itkToSCIFIOPixelType", TAB>>
    \o toString(d.m_NumberOfComponents) \o <<TAB>>
    \o WritePairs(region, 0)

(***************************************************************************)
(* The plane / chunk loop of Write, as a function of its locals.           *)
(***************************************************************************)
\* int bytesToRead = min(pipelength, bytesPerPlane - bytesRead)
BytesToRead(bpp, bRead) ==
  IF bpp - bRead > pipelength THEN pipelength ELSE bpp - bRead

\* while(bytesRead < bytesPerPlane): write the next chunk and wait for its
\* acknowledgement; else wait for the plane acknowledgement
EnterChunkLoop(L, bpp) ==
  IF L.bytesRead < bpp
    THEN LET n == BytesToRead(bpp, L.bytesRead) IN
         [L EXCEPT !.pc = "Write_bytesDone", !.chunkOut = n,
                   !.dataOff = @ + n, !.bytesRead = @ + n,
                   !.w = WorkerTakePixels(@, n), !.bytesDone = <<>>]
    ELSE [L EXCEPT !.pc = "Write_planeDone", !.chunkOut = 0, !.planeDone = <<>>]

\* for (int i = 0; i < numPlanes; i++): plane i starts, or Write returns
EnterPlane(L, i, nPlanes, bpp) ==
  IF i < nPlanes
    THEN EnterChunkLoop([L EXCEPT !.plane = i, !.bytesRead = 0], bpp)
    ELSE [L EXCEPT !.pc = "idle", !.plane = i, !.chunkOut = 0]


(***************************************************************************)
(* Initial state: after the constructor (m_Process = NULL, nothing spawned)*)
(***************************************************************************)
InitialDescriptor ==
  [m_NumberOfDimensions |-> 2, m_ByteOrder |-> "OrderNotApplicable",
   m_ComponentType |-> <<"UNKNOWNCOMPONENTTYPE", 0>>,
   m_Dimensions |-> <<0, 0, 0, 0, 0>>, m_PixelType |-> "SCALAR",
   m_NumberOfComponents |-> 1, m_Spacing |-> <<1, 1, 1, 1, 1>>]

Init ==
  /\ m_Process = NULL
  /\ handles = <<>>
  /\ alive = {}
  /\ m_Pipe = 0
  /\ openEnds = {}
  /\ nSpawn = 0
  /\ wmode = "none" /\ wout = <<>> /\ winterp = "none"
  /\ wbpp = <<>> /\ wgot = 0 /\ wplanes = 0
  /\ pc = "idle"
  /\ dict = <<>> /\ itkMeta = <<>>
  /\ desc = InitialDescriptor
  /\ imgInfo = <<>> /\ bytesDone = <<>> /\ planeDone = <<>> /\ errorMessage = <<>>
  /\ data = <<>> /\ pos = 0 /\ byteCount = 0 /\ rdBytes = <<>>
  /\ numPlanes = 1 /\ bytesPerPlane = 0 /\ plane = 0 /\ bytesRead = 0 /\ dataOff = 0
  /\ ev = "constructor" /\ command = <<>> /\ chunkOut = 0 /\ killSent = NULL
  /\ result = "none" /\ errKind = "none" /\ errText = <<>> /\ ret = "void"

(***************************************************************************)
(* Pieces of the actions.                                                  *)
(***************************************************************************)
SetSup(s) ==
  /\ m_Process' = s.m_Process /\ handles' = s.handles /\ alive' = s.alive
  /\ m_Pipe' = s.m_Pipe /\ openEnds' = s.openEnds /\ nSpawn' = s.nSpawn

SetWorker(w) ==
  /\ wmode' = w.wmode /\ wout' = w.wout /\ winterp' = w.winterp
  /\ wbpp' = w.wbpp /\ wgot' = w.wgot /\ wplanes' = w.wplanes

\* itkExceptionMacro: the operation ends with an exception
Throw(kind, text) ==
  /\ pc' = "idle" /\ result' = "error" /\ errKind' = kind /\ errText' = text
  /\ ret' = "void"

\* the operation returns
Return(r) ==
  /\ pc' = "idle" /\ result' = "ok" /\ errKind' = "none" /\ errText' = <<>>
  /\ ret' = r

\* the operation goes on waiting in loop
Running(loop) ==
  /\ pc' = loop /\ result' = "none" /\ errKind' = "none" /\ errText' = <<>>
  /\ ret' = "void"

\* the locals of an operation at its start (those of the operation before
\* are gone)
FreshLocals ==
  /\ imgInfo' = <<>> /\ bytesDone' = <<>> /\ planeDone' = <<>>
  /\ errorMessage' = <<>>

FreshRead == data' = <<>> /\ pos' = 0 /\ byteCount' = 0 /\ rdBytes' = <<>>

FreshWrite ==
  /\ numPlanes' = 1 /\ bytesPerPlane' = 0 /\ plane' = 0 /\ bytesRead' = 0
  /\ dataOff' = 0

\* the spawn bound of the model
CanCreate == Executing(Sup) \/ nSpawn < MaxSpawn

\* the states Execute can leave; nothing is executed when the worker is reused
SpawnStates == IF Executing(Sup) THEN {"Executing"} ELSE ProcessStates

BoolText(b) == IF b THEN "true" ELSE "false"

\* the first line of a reply: imgInfo.substr( 0, imgInfo.find("\n", 0) )
FirstLine(buf) == SubStr(buf, 0, Find(buf, LF, 0))

\* memcpy( data, pipedata, pipedatalength ): the offset forgotten
Memcpy_NoOffset(dst, off, src) ==
  [i \in 1..Len(dst) |-> IF i <= Len(src) THEN src[i] ELSE dst[i]]

\* memcpy( data + pos, pipedata, pipedatalength ); dst is the caller's buffer:
\* what a copy puts beyond its end is outside the buffer (pos > byteCount
\* tells that a copy went past the end)
Memcpy(dst, off, src) ==
  [i \in 1..Len(dst) |->
     IF i > off /\ i <= off + Len(src) THEN src[i - off] ELSE dst[i]]

\* while( pos == 0 ): the loop left after the first chunk
ReadMore_FirstChunk(p, bc) == p = 0 /\ bc > 0

\* while( pos < byteCount )
ReadMore(p, bc) == p < bc

(***************************************************************************)
(* canRead / canWrite                                                      *)
(***************************************************************************)
\* CreateJavaProcess, then the probe command; verb names the operation
Probe(verb, loop) ==
  /\ pc = "idle"
  /\ CanCreate
  /\ \E st \in SpawnStates :
       LET c  == CreateJavaProcess(Sup, st)
           w0 == WorkerAfterCreate(c)
       IN
       /\ SetSup(c.sup)
       /\ FreshLocals
       /\ IF c.thrown
            THEN /\ Throw("launch", <<>>)
                 /\ SetWorker(w0)
                 /\ command' = <<>>
            ELSE /\ Running(loop)
                 /\ command' = <<verb, TAB, FileName, LF>>
                 /\ \E resp \in BoolFrames :
                      SetWorker(WorkerReceive(w0, verb, resp, <<>>, 0))
  /\ ev' = loop /\ chunkOut' = 0 /\ killSent' = NULL
  /\ FreshRead /\ FreshWrite
  /\ UNCHANGED metaVars

\* an output-channel chunk in the reply loop of a probe
ProbeSTDOUT(loop) ==
  /\ pc = loop
  /\ \E n \in 1..Len(wout) :
       LET buf == imgInfo \o SubSeq(wout, 1, n) IN
       /\ imgInfo' = buf
       /\ wout' = SubSeq(wout, n + 1, Len(wout))
       /\ IF EndsWithSentinel(buf)
            THEN Return(BoolText(valueOfStringBool(FirstLine(buf))))
            ELSE UNCHANGED <<pc, endVars>>
  /\ ev' = "STDOUT" /\ command' = <<>> /\ chunkOut' = 0 /\ killSent' = NULL
  /\ UNCHANGED <<supVars, wmode, winterp, wbpp, wgot, wplanes, metaVars,
                 bytesDone, planeDone, errorMessage, readVars, writeVars>>

CanReadFile == Probe("canRead", "CanReadFile")

CanReadFile_STDOUT == ProbeSTDOUT("CanReadFile")

CanWriteFile == Probe("canWrite", "CanWriteFile")

CanWriteFile_STDOUT == ProbeSTDOUT("CanWriteFile")

(***************************************************************************)
(* The branches every wait loop shares.                                    *)
(***************************************************************************)
Loops ==
  {"CanReadFile", "ReadImageInformation", "Read", "CanWriteFile",
   "Write_count", "Write_bytesDone", "Write_planeDone"}

\* retcode == itksysProcess_Pipe_STDERR: the chunk joins errorMessage and
\* the loop goes on
WaitSTDERR ==
  /\ pc \in Loops
  /\ Len(errorMessage) < MaxErr
  /\ errorMessage' = errorMessage \o <<"E">>
  /\ ev' = "STDERR" /\ command' = <<>> /\ chunkOut' = 0 /\ killSent' = NULL
  /\ UNCHANGED <<supVars, workerVars, metaVars, imgInfo, bytesDone, planeDone,
                 readVars, writeVars, endVars, pc>>

\* any other retcode: DestroyJavaProcess, then the exception that carries
\* errorMessage
WaitAbnormal ==
  /\ pc \in Loops
  /\ SetSup(DestroyJavaProcess(Sup))
  /\ killSent' = KilledBy(Sup)
  /\ SetWorker(NoWorker)
  /\ Throw("abnormal", errorMessage)
  /\ ev' = "None" /\ command' = <<>> /\ chunkOut' = 0
  /\ UNCHANGED <<metaVars, textVars, readVars, writeVars>>


(***************************************************************************)
(* info                                                                    *)
(***************************************************************************)
ReadImageInformation ==
  /\ pc = "idle"
  /\ CanCreate
  /\ \E st \in SpawnStates :
       LET c  == CreateJavaProcess(Sup, st)
           w0 == WorkerAfterCreate(c)
       IN
       /\ SetSup(c.sup)
       /\ FreshLocals
       /\ IF c.thrown
            THEN /\ Throw("launch", <<>>)
                 /\ SetWorker(w0)
                 /\ command' = <<>>
            ELSE /\ Running("ReadImageInformation")
                 /\ command' = <<"info", TAB, FileName, LF>>
                 /\ \E resp \in InfoFrames :
                      SetWorker(WorkerReceive(w0, "info", resp, <<>>, 0))
  /\ ev' = "ReadImageInformation" /\ chunkOut' = 0 /\ killSent' = NULL
  /\ FreshRead /\ FreshWrite
  /\ UNCHANGED metaVars

\* an output-channel chunk; on the sentinel the frame is parsed into the
\* dictionary, saved to itkMeta, and the descriptor is populated
ReadImageInformation_STDOUT ==
  /\ pc = "ReadImageInformation"
  /\ \E n \in 1..Len(wout) :
       LET buf == imgInfo \o SubSeq(wout, 1, n) IN
       /\ imgInfo' = buf
       /\ wout' = SubSeq(wout, n + 1, Len(wout))
       /\ IF EndsWithSentinel(buf)
            THEN LET nd == ParseFrame(buf, dict)
                     r  == PopulateDescriptor(nd,
                             [desc EXCEPT !.m_NumberOfDimensions = 5])
                 IN
                 /\ dict' = nd
                 /\ itkMeta' = nd
                 /\ desc' = r.desc
                 /\ IF r.err = "none" THEN Return("void") ELSE Throw(r.err, <<>>)
            ELSE UNCHANGED <<pc, endVars, metaVars>>
  /\ ev' = "STDOUT" /\ command' = <<>> /\ chunkOut' = 0 /\ killSent' = NULL
  /\ UNCHANGED <<supVars, wmode, winterp, wbpp, wgot, wplanes,
                 bytesDone, planeDone, errorMessage, readVars, writeVars>>

(***************************************************************************)
(* read                                                                    *)
(***************************************************************************)
Read ==
  /\ pc = "idle"
  /\ CanCreate
  /\ \E st \in SpawnStates :
       LET c  == CreateJavaProcess(Sup, st)
           w0 == WorkerAfterCreate(c)
       IN
       /\ SetSup(c.sup)
       /\ FreshLocals
       /\ IF c.thrown
            THEN /\ Throw("launch", <<>>)
                 /\ SetWorker(w0)
                 /\ command' = <<>>
                 /\ FreshRead
            ELSE \E region \in ReadRegions :
                   LET bc == GetPixelSize * GetNumberOfPixels(region) IN
                   \E b \in [1..bc -> Bytes] :
                     /\ command' = ReadCommand(region)
                     /\ SetWorker(WorkerReceive(w0, "read", b, <<>>, 0))
                     /\ data' = [i \in 1..bc |-> "?"]
                     /\ pos' = 0
                     /\ byteCount' = bc
                     /\ rdBytes' = b
                     /\ IF ReadMore(0, bc) THEN Running("Read")
                        ELSE Return("void")
  /\ ev' = "Read" /\ chunkOut' = 0 /\ killSent' = NULL
  /\ FreshWrite
  /\ UNCHANGED metaVars

\* an output-channel chunk is copied to data + pos
Read_STDOUT ==
  /\ pc = "Read"
  /\ \E n \in 1..Len(wout) :
       /\ data' = Memcpy(data, pos, SubSeq(wout, 1, n))
       /\ pos' = pos + n
       /\ wout' = SubSeq(wout, n + 1, Len(wout))
       /\ IF ReadMore(pos + n, byteCount)
            THEN UNCHANGED <<pc, endVars>>
            ELSE Return("void")
  /\ ev' = "STDOUT" /\ command' = <<>> /\ chunkOut' = 0 /\ killSent' = NULL
  /\ UNCHANGED <<supVars, wmode, winterp, wbpp, wgot, wplanes, metaVars,
                 textVars, byteCount, rdBytes, writeVars>>

(***************************************************************************)
(* write                                                                   *)
(***************************************************************************)
WriteLocals ==
  [pc |-> pc, plane |-> plane, bytesRead |-> bytesRead, dataOff |-> dataOff,
   chunkOut |-> 0, w |-> Wk, bytesDone |-> bytesDone, planeDone |-> planeDone]

SetWriteLocals(L) ==
  /\ plane' = L.plane /\ bytesRead' = L.bytesRead /\ dataOff' = L.dataOff
  /\ chunkOut' = L.chunkOut /\ SetWorker(L.w)
  /\ bytesDone' = L.bytesDone /\ planeDone' = L.planeDone
  /\ IF L.pc = "idle" THEN Return("void")
     ELSE /\ pc' = L.pc /\ UNCHANGED endVars

\* CreateJavaProcess, the write command (the lookup-table extraction may
\* throw before anything is written), then the wait for the byte count
Write ==
  /\ pc = "idle"
  /\ CanCreate
  /\ \E st \in SpawnStates :
       LET c   == CreateJavaProcess(Sup, st)
           w0  == WorkerAfterCreate(c)
           lut == LutBlock(itkMeta)
       IN
       /\ SetSup(c.sup)
       /\ FreshLocals
       /\ IF c.thrown
            THEN /\ Throw("launch", <<>>)
                 /\ SetWorker(w0)
                 /\ command' = <<>>
                 /\ FreshWrite
            ELSE \E region \in WriteRegions :
              /\ numPlanes' = NumPlanes(region)
              /\ bytesPerPlane' = desc.m_NumberOfComponents
              /\ plane' = 0 /\ bytesRead' = 0 /\ dataOff' = 0
              /\ IF ~lut.ok
                   THEN /\ Throw("conversion", <<>>)
                        /\ SetWorker(w0)
                        /\ command' = <<>>
                   ELSE /\ Running("Write_count")
                        /\ command' = WriteCommandHead(region, desc) \o lut.text
                                        \o <<LF>>
                        /\ \E cnt \in CountTexts :
                             SetWorker(WorkerReceive(w0, "write",
                                         cnt \o <<LF, LF>>, cnt,
                                         WorkerPlanes(region)))
  /\ ev' = "Write" /\ chunkOut' = 0 /\ killSent' = NULL
  /\ FreshRead
  /\ UNCHANGED metaVars

\* an output-channel chunk of the byte-count reply; on the sentinel the
\* first line is converted (the conversion may throw) and the plane loop starts
Write_count_STDOUT ==
  /\ pc = "Write_count"
  /\ \E n \in 1..Len(wout) :
       LET buf == imgInfo \o SubSeq(wout, 1, n)
           L0  == [WriteLocals EXCEPT !.w.wout = SubSeq(wout, n + 1, Len(wout))]
           v   == valueOfString(FirstLine(buf))
       IN
       /\ imgInfo' = buf
       /\ IF ~EndsWithSentinel(buf)
            THEN /\ SetWriteLocals(L0)
                 /\ UNCHANGED bytesPerPlane
            ELSE IF ~v.ok
              THEN /\ Throw("conversion", <<>>)
                   /\ SetWorker(L0.w)
                   /\ chunkOut' = 0
                   /\ UNCHANGED <<bytesPerPlane, plane, bytesRead, dataOff,
                                  bytesDone, planeDone>>
              ELSE /\ bytesPerPlane' = v.val
                   /\ SetWriteLocals(EnterPlane(L0, 0, numPlanes, v.val))
  /\ ev' = "STDOUT" /\ command' = <<>> /\ killSent' = NULL
  /\ UNCHANGED <<supVars, metaVars, errorMessage, readVars, numPlanes>>

\* an output-channel chunk of a chunk acknowledgement; on the sentinel the
\* next chunk is written, or the plane acknowledgement is awaited
Write_bytesDone_STDOUT ==
  /\ pc = "Write_bytesDone"
  /\ \E n \in 1..Len(wout) :
       LET buf == bytesDone \o SubSeq(wout, 1, n)
           L0  == [WriteLocals EXCEPT !.w.wout = SubSeq(wout, n + 1, Len(wout)),
                                      !.bytesDone = buf]
       IN
       IF EndsWithSentinel(buf)
         THEN SetWriteLocals(EnterChunkLoop(L0, bytesPerPlane))
         ELSE SetWriteLocals(L0)
  /\ ev' = "STDOUT" /\ command' = <<>> /\ killSent' = NULL
  /\ UNCHANGED <<supVars, metaVars, imgInfo, errorMessage, readVars, numPlanes,
                 bytesPerPlane>>

\* an output-channel chunk of a plane acknowledgement; on the sentinel the
\* next plane starts, or Write returns
Write_planeDone_STDOUT ==
  /\ pc = "Write_planeDone"
  /\ \E n \in 1..Len(wout) :
       LET buf == planeDone \o SubSeq(wout, 1, n)
           L0  == [WriteLocals EXCEPT !.w.wout = SubSeq(wout, n + 1, Len(wout)),
                                      !.planeDone = buf]
       IN
       IF EndsWithSentinel(buf)
         THEN SetWriteLocals(EnterPlane(L0, plane + 1, numPlanes, bytesPerPlane))
         ELSE SetWriteLocals(L0)
  /\ ev' = "STDOUT" /\ command' = <<>> /\ killSent' = NULL
  /\ UNCHANGED <<supVars, metaVars, imgInfo, errorMessage, readVars, numPlanes,
                 bytesPerPlane>>

(***************************************************************************)
(* shutdown and destruction                                                *)
(***************************************************************************)
Shutdown ==
  /\ pc = "idle"
  /\ SetSup(DestroyJavaProcess(Sup))
  /\ killSent' = KilledBy(Sup)
  /\ SetWorker(IF m_Process = NULL THEN Wk ELSE NoWorker)
  /\ ev' = "DestroyJavaProcess" /\ command' = <<>> /\ chunkOut' = 0
  /\ FreshLocals /\ FreshRead /\ FreshWrite
  /\ UNCHANGED <<metaVars, endVars, pc>>

\* ~SCIFIOImageIO: DestroyJavaProcess; the instance and its members are
\* gone, what the supervisor held in the operating system remains to be seen
Destructor ==
  /\ pc = "idle"
  /\ SetSup(DestroyJavaProcess(Sup))
  /\ killSent' = KilledBy(Sup)
  /\ SetWorker(IF m_Process = NULL THEN Wk ELSE NoWorker)
  /\ pc' = "destructed"
  /\ ev' = "Destructor" /\ command' = <<>> /\ chunkOut' = 0
  /\ FreshLocals /\ FreshRead /\ FreshWrite
  /\ dict' = <<>> /\ itkMeta' = <<>> /\ desc' = InitialDescriptor
  /\ result' = "none" /\ errKind' = "none" /\ errText' = <<>> /\ ret' = "void"

Next ==
  \/ CanReadFile
  \/ CanReadFile_STDOUT
  \/ CanWriteFile
  \/ CanWriteFile_STDOUT
  \/ ReadImageInformation
  \/ ReadImageInformation_STDOUT
  \/ Read
  \/ Read_STDOUT
  \/ Write
  \/ Write_count_STDOUT
  \/ Write_bytesDone_STDOUT
  \/ Write_planeDone_STDOUT
  \/ WaitSTDERR
  \/ WaitAbnormal
  \/ Shutdown
  \/ Destructor

Spec == Init /\ [][Next]_vars


(***************************************************************************)
(* The metadata codec on arbitrary value lines: ReadImageInformation has   *)
(* written its command to a new worker, and the worker answers with a      *)
(* frame of one key/value pair whose value line is any short text over an  *)
(* ordinary byte, the backslash and the letter n.                          *)
(***************************************************************************)
\* longest value line
MaxValueLen == 4

CodecAlphabet == {"a", BS, "n"}

CodecValues ==
  UNION { [1..n -> CodecAlphabet] : n \in 1..MaxValueLen }
    \cup { <<"a", BS, BS, "n", "b">> }

CodecFrame(v) == <<"k", LF>> \o v \o <<LF, LF>>

CodecFrames == { CodecFrame(v) : v \in CodecValues }

CodecInit ==
  LET c == CreateJavaProcess(
             [m_Process |-> NULL, handles |-> <<>>, alive |-> {}, m_Pipe |-> 0,
              openEnds |-> {}, nSpawn |-> 0], "Executing")
  IN
  /\ m_Process = c.sup.m_Process /\ handles = c.sup.handles
  /\ alive = c.sup.alive /\ m_Pipe = c.sup.m_Pipe
  /\ openEnds = c.sup.openEnds /\ nSpawn = c.sup.nSpawn
  /\ \E frame \in CodecFrames :
       /\ wmode = "command" /\ wout = frame /\ winterp = "command"
       /\ wbpp = <<>> /\ wgot = 0 /\ wplanes = 0
  /\ pc = "ReadImageInformation"
  /\ dict = <<>> /\ itkMeta = <<>>
  /\ desc = InitialDescriptor
  /\ imgInfo = <<>> /\ bytesDone = <<>> /\ planeDone = <<>> /\ errorMessage = <<>>
  /\ data = <<>> /\ pos = 0 /\ byteCount = 0 /\ rdBytes = <<>>
  /\ numPlanes = 1 /\ bytesPerPlane = 0 /\ plane = 0 /\ bytesRead = 0 /\ dataOff = 0
  /\ ev = "ReadImageInformation" /\ command = <<"info", TAB, FileName, LF>>
  /\ chunkOut = 0 /\ killSent = NULL
  /\ result = "none" /\ errKind = "none" /\ errText = <<>> /\ ret = "void"

CodecNext == ReadImageInformation_STDOUT

CodecSpec == CodecInit /\ [][CodecNext]_vars

(***************************************************************************)
(* Write after a metadata dump that carries a lookup table:                *)
(* ReadImageInformation has returned, the worker is executing and waits    *)
(* for a command, and the dictionary saved in itkMeta holds the keys of    *)
(* the dump.                                                               *)
(***************************************************************************)
\* largest LUTLength of a dump
MaxLutLength == 2

\* a key of several symbols, its value, each on a line
PairT(key, v) == key \o <<LF>> \o v \o <<LF>>

\* the pairs LUTR<i>, LUTG<i>, LUTB<i> for i .. n-1
RECURSIVE LutPairs(_, _)
LutPairs(i, n) ==
  IF i >= n THEN <<>>
  ELSE PairT(<<"LUTR">> \o toString(i), <<"1">>)
         \o PairT(<<"LUTG">> \o toString(i), <<"2">>)
         \o PairT(<<"LUTB">> \o toString(i), <<"3">>)
         \o LutPairs(i + 1, n)

\* the UseLUT value lines that do not ask for a table: 0, false, no token
NoLutTexts == {<<"0">>, <<"false">>, <<"x">>}

\* the lookup-table pairs of a dump: none, a UseLUT that is not set, or a
\* table of 8 or 16 bits
LutTexts ==
  { <<>> } \cup { Pair("UseLUT", u) : u \in NoLutTexts }
    \cup { Pair("UseLUT", u) \o Pair("LUTBits", b)
             \o Pair("LUTLength", toString(n)) \o LutPairs(0, n) :
             u \in {<<"1">>, <<"true">>}, b \in {<<"8">>, <<"1", "6">>},
             n \in 0..MaxLutLength }

\* the complete dump followed by the lookup-table pairs
LutFrames ==
  { SubSeq(FullInfoFrame, 1, Len(FullInfoFrame) - 1) \o t \o <<LF>> :
      t \in LutTexts }

LutInit ==
  LET c == CreateJavaProcess(
             [m_Process |-> NULL, handles |-> <<>>, alive |-> {}, m_Pipe |-> 0,
              openEnds |-> {}, nSpawn |-> 0], "Executing")
  IN
  /\ m_Process = c.sup.m_Process /\ handles = c.sup.handles
  /\ alive = c.sup.alive /\ m_Pipe = c.sup.m_Pipe
  /\ openEnds = c.sup.openEnds /\ nSpawn = c.sup.nSpawn
  /\ wmode = "command" /\ wout = <<>> /\ winterp = "command"
  /\ wbpp = <<>> /\ wgot = 0 /\ wplanes = 0
  /\ pc = "idle"
  /\ \E frame \in LutFrames :
       LET nd == ParseFrame(frame, <<>>)
           r  == PopulateDescriptor(nd,
                   [InitialDescriptor EXCEPT !.m_NumberOfDimensions = 5])
       IN
       /\ imgInfo = frame /\ dict = nd /\ itkMeta = nd /\ desc = r.desc
  /\ bytesDone = <<>> /\ planeDone = <<>> /\ errorMessage = <<>>
  /\ data = <<>> /\ pos = 0 /\ byteCount = 0 /\ rdBytes = <<>>
  /\ numPlanes = 1 /\ bytesPerPlane = 0 /\ plane = 0 /\ bytesRead = 0 /\ dataOff = 0
  /\ ev = "STDOUT" /\ command = <<>> /\ chunkOut = 0 /\ killSent = NULL
  /\ result = "ok" /\ errKind = "none" /\ errText = <<>> /\ ret = "void"

LutNext ==
  \/ Write
  \/ Write_count_STDOUT
  \/ Write_bytesDone_STDOUT
  \/ Write_planeDone_STDOUT

LutSpec == LutInit /\ [][LutNext]_vars

(***************************************************************************)
(* Properties.                                                             *)
(***************************************************************************)
Requests ==
  {"CanReadFile", "CanWriteFile", "ReadImageInformation", "Read", "Write"}

\* C1: at most one worker process is alive and at most one handle exists
\* for the instance, and both belong to m_Process: no worker is spawned
\* while an earlier one is alive or still holds a handle
C1_AtMostOneWorker ==
  /\ Cardinality(alive) <= 1
  /\ Cardinality(DOMAIN handles) <= 1
  /\ alive \subseteq {m_Process} \ {NULL}
  /\ DOMAIN handles \subseteq {m_Process} \ {NULL}

\* a second worker was spawned and serves a request: it is the only one
\* alive and owns the only handle
C1_Witness ==
  /\ nSpawn = 2 /\ alive = {2} /\ m_Process = 2 /\ DOMAIN handles = {2}
  /\ pc \in Loops

\* C2: a command line is written only to a worker that was spawned by this
\* call or that waits for a command with nothing of the previous exchange
\* left unread
C2_CommandToIdleWorker ==
  [][command' # <<>> =>
       (nSpawn' # nSpawn \/ (wmode = "command" /\ wout = <<>>))]_vars

\* C3: after CreateJavaProcess failed on a non-executing state the
\* instance holds no process handle
C3_FailedSpawnLeavesNoHandle == errKind = "launch" => m_Process = NULL

ProtocolErrors == {"abnormal", "missingkey", "conversion", "unknownpixel"}

\* C4: when an operation ends with a protocol error the worker process has
\* been torn down
C4_ProtocolErrorAfterTeardown ==
  (pc = "idle" /\ result = "error" /\ errKind \in ProtocolErrors
     /\ ev # "DestroyJavaProcess")
    => m_Process = NULL

\* C5: after a teardown the instance holds no handle, and whenever it holds
\* no handle no kwsys handle, no worker and no pipe end it opened remains
C5_TeardownReleasesAll ==
  /\ ev \in {"DestroyJavaProcess", "Destructor", "None"} => m_Process = NULL
  /\ m_Process = NULL =>
       (DOMAIN handles = {} /\ alive = {} /\ openEnds = {})

\* the second worker was spawned and torn down by an explicit shutdown
C5_Witness ==
  ev = "DestroyJavaProcess" /\ nSpawn = 2 /\ killSent = 2 /\ m_Process = NULL

\* C6: shutdown changes nothing when no process exists, leaves a state a
\* second shutdown does not change, and kills and waits for an executing
\* process before the handle is released
C6_ShutdownIdempotent ==
  [][ev' = "DestroyJavaProcess" =>
       /\ m_Process' = NULL
       /\ m_Process = NULL => Sup' = Sup
       /\ DestroyJavaProcess(Sup') = Sup'
       /\ Executing(Sup) =>
            (killSent' = m_Process /\ m_Process \notin alive'
               /\ m_Process \notin DOMAIN handles')]_vars

\* a shutdown that killed an executing worker
C6_Witness ==
  ev = "DestroyJavaProcess" /\ killSent # NULL /\ m_Process = NULL /\ alive = {}

\* C7: nothing is spawned by the constructor; a request spawns one worker
\* when there is none, spawns nothing and leaves handle and pipe alone when
\* the worker is executing, and replaces a stale handle by one new worker
C7_LazyReuse ==
  /\ (nSpawn = 0 /\ m_Process = NULL /\ alive = {})
  /\ [][(pc = "idle" /\ ev' \in Requests) =>
          /\ m_Process = NULL => (nSpawn' = nSpawn + 1 /\ m_Process' = nSpawn')
          /\ Executing(Sup) => Sup' = Sup
          /\ (m_Process # NULL /\ ~Executing(Sup)) =>
               /\ nSpawn' = nSpawn + 1
               /\ m_Process' = nSpawn'
               /\ DOMAIN handles' = {nSpawn'}
               /\ <<m_Pipe, 1>> \notin openEnds']_vars

\* the worker that answered info is reused by Read
C7_Witness ==
  /\ ev = "Read" /\ command # <<>> /\ nSpawn = 1 /\ Executing(Sup)
  /\ dict # <<>>

\* C8: the command line of the operation that follows a failed operation
\* reaches an executing worker that takes it as a command
C8_UsableAfterError ==
  [][(pc = "idle" /\ result = "error" /\ command' # <<>>) =>
       (Executing(Sup') /\ winterp' = "command")]_vars

\* C9: when Read returns, the destination buffer holds the bytes the worker
\* delivered for the region, in their order, whatever the chunks were
C9_ReadComplete ==
  (pc = "idle" /\ result = "ok") => (data = rdBytes /\ pos = byteCount)

\* Read returned two different bytes in order
C9_Witness ==
  /\ pc = "idle" /\ result = "ok" /\ ev = "STDOUT"
  /\ byteCount = 2 /\ data = <<"a", "b">>

\* C10 as stated: a diagnostic chunk or an abnormal signal in the read loop
\* ends Read with an error
C10_DiagnosticAbortsRead ==
  [][(pc = "Read" /\ ev' \in {"STDERR", "None"}) =>
       (pc' = "idle" /\ result' = "error")]_vars

\* C10 amended: in the read loop an abnormal signal tears the worker down
\* and ends Read with an error that carries the diagnostic text; a
\* diagnostic chunk only joins that text and the loop goes on; Read returns
\* only with the whole region copied
C10_AbnormalAbortsRead ==
  [][pc = "Read" =>
       /\ ev' = "None" =>
            (pc' = "idle" /\ result' = "error" /\ errKind' = "abnormal"
               /\ errText' = errorMessage /\ m_Process' = NULL)
       /\ ev' = "STDERR" =>
            (pc' = "Read" /\ errorMessage' = errorMessage \o <<"E">>
               /\ data' = data /\ pos' = pos)
       /\ (pc' = "idle" /\ result' = "ok") =>
            (pos' = byteCount /\ data' = rdBytes)]_vars

\* Read was aborted half way, after a diagnostic chunk, with its text
C10_Witness ==
  /\ pc = "idle" /\ result = "error" /\ errKind = "abnormal" /\ ev = "None"
  /\ byteCount = 2 /\ pos = 1 /\ errText = <<"E">>

\* Write has returned: only Write leaves bytesPerPlane positive
WriteReturned == pc = "idle" /\ result = "ok" /\ bytesPerPlane > 0

\* C11: Write sends the announced planes in chunks of at most pipelength
\* bytes; while it waits for a chunk or plane acknowledgement that frame is
\* still to come, and when it returns the worker has received every plane
\* of the region and every acknowledgement was read
C11_WriteHandshake ==
  /\ chunkOut <= pipelength
  /\ pc \in {"Write_bytesDone", "Write_planeDone"} => wout # <<>>
  /\ WriteReturned =>
       (wplanes = 0 /\ wout = <<>> /\ dataOff = numPlanes * bytesPerPlane)

WriteLoops == {"Write_count", "Write_bytesDone", "Write_planeDone"}

\* C12: an abnormal signal in any of the three waits of Write ends Write
\* with an error after the worker was killed and its handle released, and
\* writes no pixel bytes; pixel bytes are written only by a Write that has
\* just read the end of a reply frame
C12_WriteAbnormalAborts ==
  [][/\ (pc \in WriteLoops /\ ev' = "None") =>
          /\ pc' = "idle" /\ result' = "error" /\ errKind' = "abnormal"
          /\ errText' = errorMessage
          /\ m_Process' = NULL /\ alive' = {} /\ DOMAIN handles' = {}
          /\ killSent' = m_Process
          /\ chunkOut' = 0 /\ dataOff' = dataOff
     /\ chunkOut' > 0 => (pc \in WriteLoops /\ ev' = "STDOUT")]_vars

\* the abnormal signal came after the chunk acknowledgement of the first
\* plane and before its plane acknowledgement
C12_Witness ==
  /\ pc = "idle" /\ ev = "None" /\ result = "error" /\ errKind = "abnormal"
  /\ m_Process = NULL /\ killSent # NULL
  /\ dataOff = 1 /\ EndsWithSentinel(bytesDone) /\ planeDone = <<>>

\* the number of tab-separated fields of a command line
FieldCount(line) == 1 + Cardinality({i \in DOMAIN line : line[i] = TAB})

\* C13: the read command is the verb, the path and exactly five
\* (start, extent) pairs, closed by one newline
C13_ReadCommandFivePairs ==
  (ev = "Read" /\ command # <<>>) =>
    /\ FieldCount(command) = 12
    /\ command[Len(command)] = LF
    /\ SubSeq(command, 1, 3) = <<"read", TAB, FileName>>

\* the lines of a text from position p0 on, without their terminators
RECURSIVE SplitLines(_, _)
SplitLines(s, p0) ==
  IF p0 >= Len(s) THEN <<>>
  ELSE LET p1 == Find(s, LF, p0) IN
       IF p1 = NPOS THEN <<SubStr(s, p0, Len(s) - p0)>>
       ELSE <<SubStr(s, p0, p1 - p0)>> \o SplitLines(s, p1 + 1)

\* the key/value pairs of a frame, in their order: a key line, then its
\* value line; blank lines between pairs carry nothing
RECURSIVE PairsFrom(_, _)
PairsFrom(lines, i) ==
  IF i > Len(lines) THEN <<>>
  ELSE IF lines[i] = <<>> THEN PairsFrom(lines, i + 1)
  ELSE IF i = Len(lines) THEN <<>>
  ELSE <<[key |-> lines[i], value |-> lines[i + 1]]>> \o PairsFrom(lines, i + 2)

FramePairs(frame) == PairsFrom(SplitLines(frame, 0), 1)

\* the value line of the first pair of the frame that has the key
FirstValue(frame, key) ==
  LET ps == FramePairs(frame)
      i  == CHOOSE j \in DOMAIN ps :
              ps[j].key = key /\ \A h \in 1..(j - 1) : ps[h].key # key
  IN  ps[i].value

FrameKeys(frame) ==
  LET ps == FramePairs(frame) IN {ps[j].key : j \in DOMAIN ps}

\* C14: when ReadImageInformation has read a frame, the dictionary holds for
\* every key of the frame the unescaped value of the first pair of that
\* frame with the key
C14_FirstOccurrenceWins ==
  [][(pc = "ReadImageInformation" /\ pc' = "idle" /\ ev' = "STDOUT") =>
       \A k \in FrameKeys(imgInfo') :
         k \in DOMAIN dict' /\ dict'[k] = Unescape(FirstValue(imgInfo', k))]_vars

\* ReadImageInformation has read and parsed a frame
InfoParsed == pc = "idle" /\ ev = "STDOUT" /\ EndsWithSentinel(imgInfo)

\* the escape rules, character by character from position i (1-based): an
\* escape is a backslash and the character after it; last says what a
\* backslash that ends the value yields
RECURSIVE EscapeRules(_, _, _)
EscapeRules(v, i, last) ==
  IF i > Len(v) THEN <<>>
  ELSE IF v[i] # BS THEN <<v[i]>> \o EscapeRules(v, i + 1, last)
  ELSE IF i = Len(v) THEN last
  ELSE (IF v[i + 1] = BS THEN <<BS>>
        ELSE IF v[i + 1] = "n" THEN <<LF>> ELSE <<>>)
       \o EscapeRules(v, i + 2, last)

\* C15 as stated: the three escapes, and every character that is not part
\* of an escape (also a backslash with nothing after it) is copied
C15_UnescapeCopiesRest ==
  InfoParsed =>
    \A k \in FrameKeys(imgInfo) :
      dict[k] = EscapeRules(FirstValue(imgInfo, k), 1, <<BS>>)

\* C15 amended: backslash-backslash yields a backslash, backslash-n a
\* linefeed, a backslash before any other character drops both, a backslash
\* that ends the value is dropped, every other character is copied
C15_Unescape ==
  InfoParsed =>
    \A k \in FrameKeys(imgInfo) :
      dict[k] = EscapeRules(FirstValue(imgInfo, k), 1, <<>>)

\* a value that ends with a backslash was decoded
C15_Witness ==
  InfoParsed /\ imgInfo = CodecFrame(<<"a", BS>>) /\ dict[<<"k">>] = <<"a">>

\* the escape of a stored value: a backslash becomes backslash-backslash, a
\* linefeed becomes backslash-n
RECURSIVE Escape(_)
Escape(t) ==
  IF t = <<>> THEN <<>>
  ELSE (IF Head(t) = BS THEN <<BS, BS>>
        ELSE IF Head(t) = LF THEN <<BS, "n">> ELSE <<Head(t)>>)
       \o Escape(Tail(t))

\* a value line as the escape produces it: every backslash starts
\* backslash-backslash or backslash-n
RECURSIVE WellEscapedFrom(_, _)
WellEscapedFrom(v, i) ==
  IF i > Len(v) THEN TRUE
  ELSE IF v[i] # BS THEN WellEscapedFrom(v, i + 1)
  ELSE i < Len(v) /\ v[i + 1] \in {BS, "n"} /\ WellEscapedFrom(v, i + 2)

\* a frame whose keys are distinct and whose value lines are escaped text
ValidFrame(frame) ==
  LET ps == FramePairs(frame) IN
  /\ \A i, j \in DOMAIN ps : ps[i].key = ps[j].key => i = j
  /\ \A i \in DOMAIN ps : WellEscapedFrom(ps[i].value, 1)

\* the pairs of the frame written again, in their order, with the escaped
\* values of the dictionary
RECURSIVE EncodePairs(_, _, _)
EncodePairs(ps, i, meta) ==
  IF i > Len(ps) THEN <<LF>>
  ELSE <<ps[i].key, LF>> \o Escape(meta[ps[i].key]) \o <<LF>>
         \o EncodePairs(ps, i + 1, meta)

\* C16: the pairs decoded from a valid frame without duplicate keys, encoded
\* again with the same escape rules, give the bytes of the frame
C16_RoundTrip ==
  (InfoParsed /\ ValidFrame(imgInfo)) =>
    EncodePairs(FramePairs(imgInfo), 1, dict) = imgInfo

\* a value with both escapes was decoded to a linefeed and a backslash
C16_Witness ==
  /\ InfoParsed /\ imgInfo = CodecFrame(<<BS, "n", BS, BS>>)
  /\ dict[<<"k">>] = <<LF, BS>>

\* C17: the number of planes Write is about to send is the product of the
\* extents of the region on Z, T and C, which is the number of planes the
\* worker that took the write command expects
C17_NumPlanesIsExtentProduct ==
  (ev = "Write" /\ command # <<>> /\ winterp = "command") =>
    numPlanes = wplanes

\* the tab-separated fields of a line from position p0 on; the text after
\* the last tab is the last field
RECURSIVE FieldsFrom(_, _)
FieldsFrom(line, p0) ==
  LET p1 == Find(line, TAB, p0) IN
  IF p1 = NPOS THEN <<SubStr(line, p0, Len(line) - p0)>>
  ELSE <<SubStr(line, p0, p1 - p0)>> \o FieldsFrom(line, p1 + 1)

\* the fields of the write command after the 26 fields that precede the
\* lookup-table block, without the closing newline
LutFields(line) ==
  LET fs == FieldsFrom(line, 0) IN SubSeq(fs, 27, Len(fs) - 1)

\* Write has just written its command line
WriteSent == ev = "Write" /\ command # <<>>

\* C18: the lookup-table block of the write command is the flag, the bit
\* depth, the entry count and three fields per entry when the flag is set,
\* one zero field otherwise, and the command ends with one newline
C18_LutBlockLayout ==
  WriteSent =>
    LET fs   == FieldsFrom(command, 0)
        lut  == LutFields(command)
        n    == GetTypedMetaData(itkMeta, K("LUTLength")).val
    IN
    /\ fs[Len(fs)] = <<LF>>
    /\ \A i \in 1..(Len(command) - 1) : command[i] # LF
    /\ IF GetTypedMetaDataBool(itkMeta, K("UseLUT"))
         THEN /\ Len(lut) = 3 + 3 * n
              /\ lut[1] = <<"1">>
              /\ lut[2] = ExposeMetaData(itkMeta, K("LUTBits"))
              /\ lut[3] = toString(n)
              /\ \A i \in 4..Len(lut) : lut[i] # <<>>
         ELSE lut = << <<"0">> >>

\* the UseLUT string Write extracts its flag from, empty when the key is absent
UseLutText == ExposeMetaData(itkMeta, K("UseLUT"))

BoolTokens == {<<"0">>, <<"1">>, <<"true">>, <<"false">>}

TextLoops == {"CanReadFile", "CanWriteFile", "ReadImageInformation", "Write_count"}

\* the text ends with two line terminators
TwoTerminators(b) == Len(b) >= 2 /\ b[Len(b)] = LF /\ b[Len(b) - 1] = LF

\* C19: while a text reply is awaited, an output chunk is appended to the
\* buffer and the wait ends exactly when the buffer then ends with two line
\* terminators; a diagnostic chunk is appended to the error buffer only and
\* the wait goes on; any other signal tears the worker down and ends the
\* operation with an error that carries the error buffer
C19_FrameReader ==
  [][(pc \in TextLoops) =>
       ( (ev' = "STDOUT" =>
            ( (\E n \in 1..Len(wout) :
                 (imgInfo' = imgInfo \o SubSeq(wout, 1, n)
                    /\ (pc' \notin {"Write_bytesDone", "Write_planeDone"}
                          => wout = SubSeq(wout, 1, n) \o wout')))
              /\ errorMessage' = errorMessage
              /\ ((pc' # pc) <=> TwoTerminators(imgInfo')) ))
         /\ (ev' = "STDERR" =>
              ( pc' = pc /\ result' = "none"
                /\ imgInfo' = imgInfo
                /\ errorMessage' = errorMessage \o <<"E">> ))
         /\ (ev' = "None" =>
              ( pc' = "idle" /\ result' = "error" /\ errKind' = "abnormal"
                /\ errText' = errorMessage
                /\ m_Process' = NULL /\ alive' = {} )) )]_vars

\* a reply was read to its sentinel although a diagnostic chunk came during
\* the wait
C19_Witness ==
  /\ pc = "idle" /\ ev = "STDOUT" /\ result = "ok" /\ ret = "true"
  /\ imgInfo = <<"1", LF, LF>> /\ errorMessage = <<"E">>

\* the descriptor fields ReadImageInformation extracts from the dictionary
Extracted(d) ==
  <<d.m_ByteOrder, d.m_ComponentType, d.m_Dimensions, d.m_NumberOfComponents,
    d.m_PixelType, d.m_Spacing>>

\* C21: when ReadImageInformation fails because the frame has no PixelType
\* key, the failed call has changed none of the descriptor fields it
\* extracts (byte order, component type, axis sizes, channel count and
\* semantics, spacings)
C21_MissingKeyLeavesDescriptor ==
  [][(pc = "ReadImageInformation" /\ pc' = "idle" /\ errKind' = "missingkey")
       => (Extracted(desc') = Extracted(desc))]_vars

\* the pairs of a frame whose key line and value line are both non-empty
StoredPairs(frame) ==
  SelectSeq(FramePairs(frame), LAMBDA p : p.value # <<>>)

\* C22: when ReadImageInformation has parsed a frame, the dictionary holds
\* exactly the pairs of the frame whose key line and value line are both
\* non-empty: lines are taken as key then value, an empty line where a key
\* is expected is skipped, a key followed by an empty line is not stored
C22_LinePairing ==
  [][(pc = "ReadImageInformation" /\ pc' = "idle" /\ ev' = "STDOUT") =>
       LET ps == StoredPairs(imgInfo') IN
       /\ DOMAIN dict' = {ps[j].key : j \in DOMAIN ps}
       /\ \A j \in DOMAIN ps :
            (\A h \in 1..(j - 1) : ps[h].key # ps[j].key)
              => (dict'[ps[j].key] = Unescape(ps[j].value))]_vars

(***************************************************************************)
(* Frames with blank lines: ReadImageInformation has written its command   *)
(* to a new worker, and the worker answers with a text that ends with the  *)
(* sentinel and may hold empty lines anywhere before it; Read is called    *)
(* after ReadImageInformation has returned or thrown.                      *)
(***************************************************************************)
\* longest frame drawn from the alphabet
MaxFrameLen == 6

FrameAlphabet == {"k", "v", LF}

\* a complete metadata dump, a blank line, one more pair, the sentinel
PaddedInfoFrame == FullInfoFrame \o Pair("UseLUT", <<"0">>) \o <<LF>>

FrameTexts ==
  { t \in UNION { [1..n -> FrameAlphabet] : n \in 2..MaxFrameLen } :
      EndsWithSentinel(t) }
    \cup { PaddedInfoFrame } \cup CodecFrames

FrameInit ==
  LET c == CreateJavaProcess(
             [m_Process |-> NULL, handles |-> <<>>, alive |-> {}, m_Pipe |-> 0,
              openEnds |-> {}, nSpawn |-> 0], "Executing")
  IN
  /\ m_Process = c.sup.m_Process /\ handles = c.sup.handles
  /\ alive = c.sup.alive /\ m_Pipe = c.sup.m_Pipe
  /\ openEnds = c.sup.openEnds /\ nSpawn = c.sup.nSpawn
  /\ \E frame \in FrameTexts :
       /\ wmode = "command" /\ wout = frame /\ winterp = "command"
       /\ wbpp = <<>> /\ wgot = 0 /\ wplanes = 0
  /\ pc = "ReadImageInformation"
  /\ dict = <<>> /\ itkMeta = <<>>
  /\ desc = InitialDescriptor
  /\ imgInfo = <<>> /\ bytesDone = <<>> /\ planeDone = <<>> /\ errorMessage = <<>>
  /\ data = <<>> /\ pos = 0 /\ byteCount = 0 /\ rdBytes = <<>>
  /\ numPlanes = 1 /\ bytesPerPlane = 0 /\ plane = 0 /\ bytesRead = 0 /\ dataOff = 0
  /\ ev = "ReadImageInformation" /\ command = <<"info", TAB, FileName, LF>>
  /\ chunkOut = 0 /\ killSent = NULL
  /\ result = "none" /\ errKind = "none" /\ errText = <<>> /\ ret = "void"

FrameNext ==
  \/ ReadImageInformation_STDOUT
  \/ Read
  \/ Read_STDOUT

FrameSpec == FrameInit /\ [][FrameNext]_vars

\* C23: when the reader of a text frame declares the frame done, the
\* accumulated text is the whole frame however the worker's output was
\* split into chunks: nothing of the frame is left unread in the pipe
C23_ChunkIndependence == InfoParsed => wout = <<>>

\* C24: in Read no byte is copied at or beyond offset byteCount, whatever
\* the lengths of the chunks (the write offset, which is the number of bytes
\* copied so far, never exceeds the target), and with a target of zero
\* bytes Read returns without waiting
C24_ReadWithinTarget ==
  /\ pos <= byteCount
  /\ (ev = "Read" /\ command # <<>> /\ byteCount = 0)
       => (pc = "idle" /\ result = "ok")

\* one iteration of the line-splitting loop without the terminator skipped
ScanStep_NoSkip(frame, p0) ==
  LET p1 == Find(frame, LF, p0) IN
  IF SubStr(frame, p0, p1 - p0) = <<>> THEN p1
  ELSE Find(frame, LF, p1 + 1) + 1

\* one iteration of the line-splitting loop: the scan position p0 it leaves
\* (a find that returns npos makes p1 + 1 wrap to 0)
ScanStep(frame, p0) ==
  LET p1 == Find(frame, LF, p0) IN
  IF SubStr(frame, p0, p1 - p0) = <<>> THEN p1 + 1
  ELSE Find(frame, LF, p1 + 1) + 1

\* the scan positions of the first n iterations of while( p0 < imgInfo.size() )
RECURSIVE ScanPositions(_, _, _)
ScanPositions(frame, p0, n) ==
  IF ~(p0 < Len(frame)) \/ n = 0 THEN <<p0>>
  ELSE <<p0>> \o ScanPositions(frame, ScanStep(frame, p0), n - 1)

\* one iteration of the unescape loop: the position lp0 it leaves
UnescapeStep(value, lp0) ==
  LET lp1 == Find(value, BS, lp0) IN
  IF lp1 = NPOS THEN Len(value) ELSE lp1 + 2

\* the positions of the first n iterations of while( lp0 < value.size() )
RECURSIVE UnescapePositions(_, _, _)
UnescapePositions(value, lp0, n) ==
  IF ~(lp0 < Len(value)) \/ n = 0 THEN <<lp0>>
  ELSE <<lp0>> \o UnescapePositions(value, UnescapeStep(value, lp0), n - 1)

\* the loop has left after at most Len(text) iterations, each of which moved
\* the position forward
Terminates(ps, text) ==
  /\ \A j \in 1..(Len(ps) - 1) : ps[j] < ps[j + 1]
  /\ ps[Len(ps)] >= Len(text)

\* C25: parsing a frame that ends with the sentinel terminates: the scan
\* position of the line-splitting loop grows on every iteration until it
\* has passed the end of the frame, and so does the position of the unescape
\* loop over every value line
C25_ParseTerminates ==
  InfoParsed =>
    /\ Terminates(ScanPositions(imgInfo, 0, Len(imgInfo)), imgInfo)
    /\ \A j \in DOMAIN StoredPairs(imgInfo) :
         LET value == StoredPairs(imgInfo)[j].value IN
         Terminates(UnescapePositions(value, 0, Len(value)), value)

\* a frame was parsed in three iterations (a pair, then the empty line of
\* the sentinel) and its value unescaped in two, the second on a backslash
\* that ends the value
C25_Witness ==
  /\ InfoParsed
  /\ imgInfo = CodecFrame(<<"a", BS, "n", BS>>)
  /\ ScanPositions(imgInfo, 0, Len(imgInfo)) = <<0, 7, 8>>
  /\ UnescapePositions(<<"a", BS, "n", BS>>, 0, 4) = <<0, 3, 5>>
  /\ dict[<<"k">>] = <<"a", LF>>

(***************************************************************************)
(* Progress.  itksysProcess_WaitForData returns what the worker has put on *)
(* its output channel, so a reply loop that has output to read takes its   *)
(* step.  A worker that has answered what was written to it may go on      *)
(* executing for ever; a worker that took the command line of the          *)
(* operation as pixel bytes will never answer it, and is the worker that   *)
(* eventually leaves the executing state.                                  *)
(***************************************************************************)
\* the worker has not answered, and will not answer, the command written last
Unanswered == pc \in Loops /\ winterp = "pixels"

\* an output-channel chunk is read by the loop that waits
ReadOutput ==
  \/ CanReadFile_STDOUT
  \/ CanWriteFile_STDOUT
  \/ ReadImageInformation_STDOUT
  \/ Read_STDOUT
  \/ Write_count_STDOUT
  \/ Write_bytesDone_STDOUT
  \/ Write_planeDone_STDOUT

Fairness ==
  /\ WF_vars(ReadOutput)
  /\ WF_vars(Unanswered /\ WaitAbnormal)

\* the reply to the pending info: the unknown pixel type
ShortInfoFrame == Pair("PixelType", <<"0">>) \o <<LF>>

\* ReadImageInformation has written its command to a new worker
LiveInit ==
  LET c == CreateJavaProcess(
             [m_Process |-> NULL, handles |-> <<>>, alive |-> {}, m_Pipe |-> 0,
              openEnds |-> {}, nSpawn |-> 0], "Executing")
  IN
  /\ m_Process = c.sup.m_Process /\ handles = c.sup.handles
  /\ alive = c.sup.alive /\ m_Pipe = c.sup.m_Pipe
  /\ openEnds = c.sup.openEnds /\ nSpawn = c.sup.nSpawn
  /\ wmode = "command" /\ wout = ShortInfoFrame /\ winterp = "command"
  /\ wbpp = <<>> /\ wgot = 0 /\ wplanes = 0
  /\ pc = "ReadImageInformation"
  /\ dict = <<>> /\ itkMeta = <<>>
  /\ desc = InitialDescriptor
  /\ imgInfo = <<>> /\ bytesDone = <<>> /\ planeDone = <<>> /\ errorMessage = <<>>
  /\ data = <<>> /\ pos = 0 /\ byteCount = 0 /\ rdBytes = <<>>
  /\ numPlanes = 1 /\ bytesPerPlane = 0 /\ plane = 0 /\ bytesRead = 0 /\ dataOff = 0
  /\ ev = "ReadImageInformation" /\ command = <<"info", TAB, FileName, LF>>
  /\ chunkOut = 0 /\ killSent = NULL
  /\ result = "none" /\ errKind = "none" /\ errText = <<>> /\ ret = "void"

\* the pending info, then any sequence of canRead, canWrite, read and write
LiveNext ==
  \/ ReadImageInformation_STDOUT
  \/ CanReadFile
  \/ CanReadFile_STDOUT
  \/ CanWriteFile
  \/ CanWriteFile_STDOUT
  \/ Read
  \/ Read_STDOUT
  \/ Write
  \/ Write_count_STDOUT
  \/ Write_bytesDone_STDOUT
  \/ Write_planeDone_STDOUT
  \/ WaitSTDERR
  \/ WaitAbnormal

LiveSpec == LiveInit /\ [][LiveNext]_vars /\ Fairness

\* C26: every operation that waits for the worker eventually returns, with
\* a result or an error, when the worker completes the response the
\* operation waits for or leaves the executing state
C26_OperationsReturn == (pc \in Loops) ~> (pc = "idle")

====
